---------------------------- MODULE Spec2Model ----------------------------
(***************************************************************************)
(* A model of the storage benchmark notebook of QCoDeS/Reports             *)
(* ("Compare loading saving speed with numpy files.ipynb"): the data       *)
(* producer, the time_it decorator, save_to_sqlite, save_to_hdf5 and       *)
(* save_to_npy, run as calls issued one after another in one kernel.       *)
(*                                                                         *)
(* Numbers.  Times are integers counted in units of 0.2 s.  Floating point *)
(* values are integers counted in float64 steps: a draw of numpy.random is *)
(* a value in 0..RngMod-1, the integer k converted to float is k * One,    *)
(* and a float32 can hold only the multiples of Float32Step.  A quotient   *)
(* a / b is kept exact as the pair [num |-> a, den |-> b].                 *)
(***************************************************************************)
EXTENDS Integers, Sequences, FiniteSets, TLC

\* ------------------------------------------------------------- bounds
\* largest n_pts_per_param handed to make_data_producer
MaxN == 2
\* largest time one call of the function under test reports (units of 0.2 s)
MaxTime == 1
\* largest `number` handed to time_it explicitly
MaxNumber == 2
\* largest `repeat` handed to time_it explicitly
MaxRepeat == 2
\* largest loop count autorange is followed to (it tries 1, 2, 5, 10, ...)
MaxBatch == 2
\* largest reading of perf_counter, relative to the start of the call
MaxClock == 3
\* number of states of the model random number generator
RngMod == 5
\* the readings of part one of the multimeter notebook, in units of 512
ReadScale == 1
\* the points of the 1D sweep (512 in the notebook)
N_1d == 2
\* the points of each axis of the 2D sweep (100 in the notebook)
N_2d == 2
\* the runs of the benchmark of the waveform upload (10 in the notebook)
no_of_reps == 2
\* how far the system clock can be set ahead
MaxSkew == 1

\* ------------------------------------------------------------- values
None == "None"

\* None where a number is expected (number=None, no loop count yet)
NoNumber == -1

Times == 0..MaxTime

\* timeit.default_repeat of the Python 3.7 the notebook ran on
default_repeat == 5

\* Timer.autorange stops at the first loop count whose total time is
\* at least 0.2 s (one time unit)
AutorangeThreshold == 1

\* h5py creates a dataset without dtype as float32: one float32 step
\* measured in float64 steps (2^29 in the real formats)
Float32Step == 2

\* 1.0 in float64 steps: draws of rand() lie in [0, 1), and small
\* integers are exact in float32
One == Float32Step * RngMod

RECURSIVE SumSeq(_)
SumSeq(s) == IF s = <<>> THEN 0 ELSE Head(s) + SumSeq(Tail(s))

MinSeq(s) == CHOOSE x \in {s[i] : i \in 1..Len(s)} :
                 \A j \in 1..Len(s) : x <= s[j]

MaxSeq(s) == CHOOSE x \in {s[i] : i \in 1..Len(s)} :
                 \A j \in 1..Len(s) : x >= s[j]

\* the exact quotient a / b
Quot(a, b) == [num |-> a, den |-> b]

QuotLeq(p, q) == p.num * q.den <= q.num * p.den

\* ------------------------------------------------- make_data_producer
\* the model generator behind numpy.random: a draw advances the state
\* and returns it
RandNext(s) == (s + 1) % RngMod

RECURSIVE RandAfter(_, _)
RandAfter(s, k) == IF k = 0 THEN s ELSE RandAfter(RandNext(s), k - 1)

\* numpy.random.rand(n) from state s: n draws
rand(s, n) == [j \in 1..n |-> RandAfter(s, j)]

\* numpy.meshgrid(x, y) followed by numpy.reshape(.., -1): element p of
\* the flattened n x n grids, row i = (p-1) \div n, column j = (p-1) % n
meshgrid_magn(x, n) == [p \in 1..(n * n) |-> x[((p - 1) % n) + 1]]

meshgrid_phas(y, n) == [p \in 1..(n * n) |-> y[((p - 1) \div n) + 1]]

\* the loop indices of the k-th tuple (k from 0): s1 outer, s2 inner
loop_indices_swapped(n, k) == <<k % n, k \div n>>

loop_indices(n, k) == <<k \div n, k % n>>

\* the k-th tuple produce_measurement_data yields, the generator being
\* in state s before the two rand() calls
produce_measurement_data(n, k, s) ==
    LET idx == loop_indices(n, k)
        x == rand(s, n)
        y == rand(RandAfter(s, n), n)
    IN [s1_val |-> idx[1], s2_val |-> idx[2],
        magn_vals |-> meshgrid_magn(x, n),
        phas_vals |-> meshgrid_phas(y, n)]

\* the generator state after that tuple
rand_after_tuple(n, s) == RandAfter(s, 2 * n)

\* ------------------------------------------------------------ time_it
\* one execution of the function under test, as the wrapper sees it:
\* what it returned and how long the call really took
\* (a tuple keeps its items, any other value is kept as value)
OtherVals == {"a", "b"}

ReturnedVals ==
    [is_tuple : {TRUE}, items : Times \X OtherVals, value : {None}]
    \cup [is_tuple : {FALSE}, items : {<<>>}, value : Times]

SutCalls == [returned_vals : ReturnedVals, elapsed : Times]

\* the time an execution reported: its first return value
reported_time(call) ==
    IF call.returned_vals.is_tuple
    THEN call.returned_vals.items[1]
    ELSE call.returned_vals.value

\* inner: the value added to total_time for one execution
timed_value_elapsed(call) == call.elapsed

timed_value(call) ==
    IF call.returned_vals.is_tuple
    THEN call.returned_vals.items[1]
    ELSE call.returned_vals.value

RECURSIVE LeadingDigit(_)
LeadingDigit(n) == IF n < 10 THEN n ELSE LeadingDigit(n \div 10)

\* Timer.autorange: the loop counts 1, 2, 5, 10, 20, 50, ...
autorange_next(number) ==
    IF LeadingDigit(number) = 2 THEN (number * 5) \div 2 ELSE number * 2

\* Timer.timeit(number): a fresh total_time and number iterations to go
begin_timeit_one_more(st, n) ==
    [st EXCEPT !.batch = n + 1, !.i = 0, !.total_time = 0, !.cur = <<>>]

begin_timeit(st, n) ==
    [st EXCEPT !.batch = n, !.i = 0, !.total_time = 0, !.cur = <<>>]

\* Timer.repeat(repeat, number_): repeat calls of timeit(number_)
begin_repeat(st) ==
    IF st.repeat = 0
    THEN [st EXCEPT !.pc = "results"]
    ELSE begin_timeit([st EXCEPT !.pc = "repeat"], st.number_)

\* the wrapper runs on from the end of an execution of sut to the next
\* one: inner returns total_time when its iterator is exhausted, autorange
\* decides on the loop count, repeat collects the timing
RECURSIVE run_timer(_)
run_timer(st) ==
    IF st.pc \notin {"autorange", "repeat"} \/ st.i < st.batch
    THEN st
    ELSE IF st.pc = "autorange"
    THEN IF st.total_time >= AutorangeThreshold
         THEN run_timer(begin_repeat([st EXCEPT !.number_ = st.batch]))
         ELSE begin_timeit(st, autorange_next(st.batch))
    ELSE LET st1 == [st EXCEPT !.all_runs = Append(@, st.total_time),
                               !.last = st.cur]
         IN IF Len(st1.all_runs) = st.repeat
            THEN [st1 EXCEPT !.pc = "results"]
            ELSE run_timer(begin_timeit(st1, st.number_))

NoResult == [loops |-> NoNumber, repeat |-> NoNumber,
             best |-> Quot(NoNumber, 1), worst |-> Quot(NoNumber, 1),
             all_runs |-> <<>>, compile_time |-> NoNumber,
             precision |-> NoNumber]

\* wrapper(*args): up to the first execution of sut
wrapper_begin(number, repeat, args) ==
    LET st == [pc |-> "autorange", number |-> number, repeat |-> repeat,
               args |-> args, passed |-> {}, calls |-> 0,
               batch |-> 0, i |-> 0, total_time |-> 0, cur |-> <<>>,
               number_ |-> NoNumber, all_runs |-> <<>>, last |-> <<>>,
               printed |-> FALSE, error |-> None, result |-> NoResult,
               sut_error |-> None, traceback |-> None]
    IN IF number = NoNumber
       THEN begin_timeit(st, 1)
       ELSE run_timer(begin_repeat([st EXCEPT !.number_ = number]))

\* copy(args): a shallow copy, equal to its argument
copy(args) == args

\* one iteration of the loop of inner, then on to the next execution
inner_iteration(st, call) ==
    run_timer([st EXCEPT !.passed = @ \cup {copy(st.args)},
                         !.calls = @ + 1,
                         !.i = @ + 1,
                         !.total_time = @ + timed_value(call),
                         !.cur = Append(@, reported_time(call))])

\* the errors an execution of sut may raise; the bare except clause of
\* the wrapper catches every one of them
Errors == {"OSError", "KeyboardInterrupt"}

\* an execution of sut raises e: it was called with a copy of the
\* arguments, and nothing is added to total_time
sut_raises(st, e) ==
    [st EXCEPT !.passed = @ \cup {copy(st.args)},
               !.calls = @ + 1,
               !.sut_error = e]

\* the error leaves inner, Timer.timeit and Timer.repeat or
\* Timer.autorange; except: t.print_exc(); raise
except_clause_goes_on(st) ==
    run_timer([st EXCEPT !.traceback = st.sut_error, !.i = @ + 1,
                         !.cur = Append(@, 0)])

except_clause(st) ==
    [st EXCEPT !.pc = "reraised",
               !.traceback = st.sut_error,
               !.error = st.sut_error]

\* the TimeitResult the wrapper builds
TimeitResult(loops, repeat, best, worst, all_runs, compile_time, precision) ==
    [loops |-> loops, repeat |-> repeat, best |-> best, worst |-> worst,
     all_runs |-> all_runs, compile_time |-> compile_time,
     precision |-> precision]

\* the end of wrapper: best, worst, the TimeitResult, print and return
wrapper_finish_swapped(st) ==
    IF st.all_runs = <<>>
    THEN [st EXCEPT !.pc = "raised", !.error = "ValueError"]
    ELSE IF st.number_ = 0
    THEN [st EXCEPT !.pc = "raised", !.error = "ZeroDivisionError"]
    ELSE LET best == Quot(MinSeq(st.all_runs), st.number_)
             worst == Quot(MaxSeq(st.all_runs), st.number_)
         IN [st EXCEPT !.pc = "returned", !.printed = TRUE,
                       !.result = TimeitResult(st.number_, st.repeat, worst,
                                               best, st.all_runs, 0, 3)]

wrapper_finish(st) ==
    IF st.all_runs = <<>>
    THEN [st EXCEPT !.pc = "raised", !.error = "ValueError"]
    ELSE IF st.number_ = 0
    THEN [st EXCEPT !.pc = "raised", !.error = "ZeroDivisionError"]
    ELSE LET best == Quot(MinSeq(st.all_runs), st.number_)
             worst == Quot(MaxSeq(st.all_runs), st.number_)
         IN [st EXCEPT !.pc = "returned", !.printed = TRUE,
                       !.result = TimeitResult(st.number_, st.repeat, best,
                                               worst, st.all_runs, 0, 3)]

NoWrapper == [pc |-> "idle", number |-> NoNumber, repeat |-> 0,
              args |-> NoNumber, passed |-> {}, calls |-> 0,
              batch |-> 0, i |-> 0, total_time |-> 0, cur |-> <<>>,
              number_ |-> NoNumber, all_runs |-> <<>>, last |-> <<>>,
              printed |-> FALSE, error |-> None, result |-> NoResult,
              sut_error |-> None, traceback |-> None]

\* ------------------------------------------------------------- arrays
\* a 2-D array: its shape and its elements in row-major (C) order
empty_array(shape) == [shape |-> shape,
                       flat |-> [f \in 1..(shape[1] * shape[2]) |-> 0]]

\* element [r, c] (from 0)
item(a, r, c) == a.flat[r * a.shape[2] + c + 1]

\* a[r, lo:hi] = vals
setitem(a, r, lo, hi, vals) ==
    [a EXCEPT !.flat = [f \in 1..Len(a.flat) |->
        LET row == (f - 1) \div a.shape[2]
            col == (f - 1) % a.shape[2]
        IN IF row = r /\ col >= lo /\ col < hi
           THEN vals[col - lo + 1]
           ELSE a.flat[f]]]

\* a scalar broadcast over m elements
broadcast(v, m) == [p \in 1..m |-> v]

\* int -> float64
float64(k) == k * One

\* float64 -> float32: the nearest multiple of Float32Step, ties to even
to_float32(v) ==
    LET q == v \div Float32Step
        r == v % Float32Step
    IN IF 2 * r < Float32Step THEN q * Float32Step
       ELSE IF 2 * r > Float32Step THEN (q + 1) * Float32Step
       ELSE IF q % 2 = 0 THEN q * Float32Step
       ELSE (q + 1) * Float32Step

\* h5py Dataset.resize: every element keeps its coordinates, new ones are 0
h5_resize(a, shape) ==
    [shape |-> shape,
     flat |-> [f \in 1..(shape[1] * shape[2]) |->
        LET row == (f - 1) \div shape[2]
            col == (f - 1) % shape[2]
        IN IF row < a.shape[1] /\ col < a.shape[2]
           THEN item(a, row, col)
           ELSE 0]]

\* ndarray.resize in place: the buffer is reallocated, so every element
\* keeps its position in row-major order; new elements are 0
ndarray_resize(a, shape) ==
    [shape |-> shape,
     flat |-> [f \in 1..(shape[1] * shape[2]) |->
        IF f <= Len(a.flat) THEN a.flat[f] ELSE 0]]

\* h5py: ds[r, lo:hi] = vals converts to the dataset's dtype, float32
h5_setitem(a, r, lo, hi, vals) ==
    setitem(a, r, lo, hi, [p \in 1..Len(vals) |-> to_float32(vals[p])])

\* numpy.lib.format.open_memmap(filename, mode='w+', shape=shape): the
\* file gets its header and room for the data; the array maps the file
\* and does not own its data
open_memmap(shape) ==
    [file |-> [exists |-> TRUE, header |-> shape,
               data |-> empty_array(shape).flat],
     array |-> [mapped |-> TRUE, owndata |-> FALSE, a |-> empty_array(shape)]]

\* numpy.require(arr, requirements=['OWNDATA']): arr itself when it owns
\* its data, a copy in memory otherwise
require_owndata(arr) ==
    IF arr.owndata THEN arr
    ELSE [mapped |-> FALSE, owndata |-> TRUE, a |-> arr.a]

\* numpy.load(filename): the array of the shape the header gives, read
\* from the data that follow it
numpy_load(file) == [shape |-> file.header, flat |-> file.data]

\* ------------------------------------------------------- the notebook
Names == {"save_to_sqlite", "time_save_to_sqlite_numeric",
          "time_save_to_sqlite_array"}

Undefined == [kind |-> "undefined", func |-> None, paramtype |-> None,
              number |-> NoNumber, repeat |-> NoNumber]

\* def f(...)
def(name) == [kind |-> "function", func |-> name, paramtype |-> None,
              number |-> NoNumber, repeat |-> NoNumber]

\* functools.partial(f, paramtype=paramtype)
partial(f, paramtype) == [f EXCEPT !.kind = "partial",
                                   !.paramtype = paramtype]

\* time_it(number, repeat)(sut): the wrapper around sut
time_it(number, repeat, sut) == [sut EXCEPT !.kind = "wrapper",
                                            !.number = number,
                                            !.repeat = repeat]

\* the cell that defines save_to_sqlite and decorates it twice
cell_save_to_sqlite_rebinding(g) ==
    [g EXCEPT !["save_to_sqlite"] =
                  time_it(3, 2, partial(def("save_to_sqlite"), "numeric")),
              !["time_save_to_sqlite_numeric"] =
                  time_it(3, 2, partial(def("save_to_sqlite"), "numeric")),
              !["time_save_to_sqlite_array"] =
                  time_it(NoNumber, default_repeat,
                          partial(def("save_to_sqlite"), "array"))]

cell_save_to_sqlite(g) ==
    [g EXCEPT !["save_to_sqlite"] = def("save_to_sqlite"),
              !["time_save_to_sqlite_numeric"] =
                  time_it(3, 2, partial(def("save_to_sqlite"), "numeric")),
              !["time_save_to_sqlite_array"] =
                  time_it(NoNumber, default_repeat,
                          partial(def("save_to_sqlite"), "array"))]

\* -------------------------------------------------------------- state
VARIABLES
    globals,    \* the kernel's namespace: name -> function value
    wrapped,    \* the names of the wrappers called so far
    stage,      \* "idle", "running", "returned" or "raised"
    called,     \* the name called last
    body,       \* the code that runs: "wrapper", "save_to_sqlite", ...
    ti,         \* the locals of wrapper and inner
    ti2,        \* a second wrapper call, observed next to the first
    differed,   \* the two calls differed in more than the times reported
    fr,         \* the locals of save_to_sqlite / save_to_hdf5 / save_to_npy
    now,        \* time.perf_counter(), from the start of the call
    log,        \* what save_to_sqlite has done so far, in order
    produced,   \* the tuples the data generator has yielded so far
    npy_mm,     \* save_to_npy: the array npy_mm is bound to
    h5file,     \* the HDF5 file at filename
    npyfile,    \* the .npy file at filename
    retval,     \* what the call returned
    nruns,      \* measurements started during the call
    notebook,   \* the notebook this kernel runs
    cell,       \* the cell that runs (its place in the notebook)
    pos,        \* the statement of the cell that is next
    handles,    \* the instruments: connection and display
    pending,    \* the instrument calls issued and not yet returned
    env,        \* t_start, t_stop and times
    trace,      \* what the cell has done so far, in order
    skew        \* the system clock, as far as it is ahead

\* the state of the two instrument notebooks
labvars == <<notebook, cell, pos, handles, pending, env, trace, skew>>

vars == <<globals, wrapped, stage, called, body, ti, ti2, differed, fr, now, log,
          produced, npy_mm, h5file, npyfile, retval, nruns, labvars>>

NoChunk == [s1_val |-> 0, s2_val |-> 0, magn_vals |-> <<>>, phas_vals |-> <<>>]

NoDataset == [paramtype |-> None, results |-> 0]

NoFrame == [pc |-> "none", n |-> 0, paramtype |-> None, k |-> 0, rng |-> 0,
            chunk |-> NoChunk, n_pts |-> 0, n_cols |-> 0, n_rows |-> 0,
            t0 |-> NoNumber, t1 |-> NoNumber, saving_time |-> NoNumber,
            dataset |-> NoDataset]

NoReturn == [kind |-> "none", saving_time |-> NoNumber,
             dataset |-> NoDataset, result |-> NoResult]

NoArray == [mapped |-> FALSE, owndata |-> FALSE, a |-> empty_array(<<0, 0>>)]

NoH5File == [exists |-> FALSE, open |-> FALSE, names |-> {},
             results |-> empty_array(<<0, 0>>)]

NoNpyFile == [exists |-> FALSE, header |-> <<0, 0>>, data |-> <<>>]

\* the start of a call at the top level of the notebook; the files it
\* writes are new temporary files
begin_call(name, code, wrapper_state, frame) ==
    /\ notebook = "sqlite"
    /\ stage = "idle"
    /\ stage' = "running"
    /\ called' = name
    /\ body' = code
    /\ ti' = wrapper_state
    /\ fr' = frame
    /\ now' = 0
    /\ log' = <<>>
    /\ produced' = <<>>
    /\ npy_mm' = NoArray
    /\ h5file' = NoH5File
    /\ npyfile' = NoNpyFile
    /\ retval' = NoReturn
    /\ nruns' = 0
    /\ UNCHANGED <<labvars, globals, ti2, differed>>

\* the locals after data_generator = create_data_generator(), the
\* generator of numpy.random being in any state
first_frame(n, paramtype, seed) ==
    [NoFrame EXCEPT !.pc = "create_generator", !.n = n,
                    !.paramtype = paramtype, !.rng = seed]

\* the cell that made the call ends: nothing is left of the call but the
\* namespace
end_cell ==
    /\ stage \in {"returned", "raised"}
    /\ stage' = "idle"
    /\ called' = "none"
    /\ body' = "none"
    /\ ti' = NoWrapper
    /\ fr' = NoFrame
    /\ now' = 0
    /\ log' = <<>>
    /\ produced' = <<>>
    /\ npy_mm' = NoArray
    /\ h5file' = NoH5File
    /\ npyfile' = NoNpyFile
    /\ retval' = NoReturn
    /\ nruns' = 0
    /\ UNCHANGED <<labvars, globals, wrapped, ti2, differed>>

\* the cell that defines save_to_sqlite and its two wrappers is run
run_cell_save_to_sqlite ==
    /\ notebook = "sqlite"
    /\ stage = "idle"
    /\ globals' = cell_save_to_sqlite(globals)
    /\ UNCHANGED <<labvars, wrapped, stage, called, body, ti, ti2, differed, fr, now, log,
                   produced, npy_mm, h5file, npyfile, retval, nruns>>

\* the data producers handed to wrappers, which only pass them on
WrapperArgs == {0, MaxN}

\* name(make_data_producer(n), paramtype=paramtype) for a name of the
\* namespace: what runs is what the name is bound to
call_global(name, n, paramtype, seed) ==
    LET f == globals[name]
    IN /\ f.kind \in {"function", "wrapper"}
       /\ IF f.kind = "wrapper"
          THEN /\ n \in WrapperArgs
               /\ wrapped' = wrapped \cup {name}
               /\ begin_call(name, "wrapper",
                             wrapper_begin(f.number, f.repeat, n), NoFrame)
          ELSE /\ wrapped' = wrapped
               /\ begin_call(name, f.func,
                             NoWrapper, first_frame(n, paramtype, seed))

\* time_it(number, repeat)(sut)(n) for any other function sut
call_time_it(number, repeat, n) ==
    /\ wrapped' = wrapped
    /\ begin_call("time_it", "wrapper", wrapper_begin(number, repeat, n),
                  NoFrame)

\* the function under test of the wrapper that runs
sut_of(name) == IF name \in Names THEN globals[name].func ELSE "other"

\* the wrapper executes sut once; sut returns
sut_call(call) ==
    /\ stage = "running"
    /\ body = "wrapper"
    /\ ti.pc \in {"autorange", "repeat"}
    /\ ti.batch <= MaxBatch \/ ti.pc = "repeat"
    /\ sut_of(called) = "save_to_sqlite" => call.returned_vals.is_tuple
    /\ ti' = inner_iteration(ti, call)
    /\ nruns' = IF sut_of(called) = "save_to_sqlite" THEN nruns + 1 ELSE nruns
    /\ UNCHANGED <<labvars, globals, wrapped, stage, called, body, ti2, differed, fr, now, log,
                   produced, npy_mm, h5file, npyfile, retval>>

\* the wrapper executes sut once; sut raises, and the wrapper with it
sut_raise(e) ==
    /\ stage = "running"
    /\ body = "wrapper"
    /\ ti.pc \in {"autorange", "repeat"}
    /\ ti.batch <= MaxBatch \/ ti.pc = "repeat"
    /\ ti' = except_clause(sut_raises(ti, e))
    /\ stage' = IF ti'.pc = "reraised" THEN "raised" ELSE stage
    /\ nruns' \in IF sut_of(called) = "save_to_sqlite"
                 THEN {nruns, nruns + 1} ELSE {nruns}
    /\ UNCHANGED <<labvars, globals, wrapped, called, body, ti2, differed, fr, now, log,
                   produced, npy_mm, h5file, npyfile, retval>>

\* the wrapper computes best and worst, prints and returns the result
wrapper_return ==
    /\ stage = "running"
    /\ body = "wrapper"
    /\ ti.pc = "results"
    /\ ti' = wrapper_finish(ti)
    /\ stage' = ti'.pc
    /\ retval' = IF ti'.pc = "returned"
                 THEN [NoReturn EXCEPT !.kind = "TimeitResult",
                                       !.result = ti'.result]
                 ELSE NoReturn
    /\ UNCHANGED <<labvars, globals, wrapped, called, body, ti2, differed, fr, now, log,
                   produced, npy_mm, h5file, npyfile, nruns>>

\* ------------------------------------- the bodies of the save functions
\* the statements of a body in program order: up to the for statement,
\* the body of the loop, and what follows the loop
save_to_sqlite_t1_inside ==
    [head |-> <<"create_generator", "define_parameters", "Measurement",
                "register_parameters", "write_period", "enter_run", "t0",
                "for">>,
     loop |-> <<"add_result">>,
     tail |-> <<"t1", "exit_run", "return">>]

save_to_sqlite ==
    [head |-> <<"create_generator", "define_parameters", "Measurement",
                "register_parameters", "write_period", "enter_run", "t0",
                "for">>,
     loop |-> <<"add_result">>,
     tail |-> <<"exit_run", "t1", "return">>]

save_to_hdf5 ==
    [head |-> <<"create_generator", "open", "create_dataset", "for">>,
     loop |-> <<"resize", "set0", "set1", "set2", "set3">>,
     tail |-> <<"close", "return">>]

save_to_npy ==
    [head |-> <<"create_generator", "open_memmap", "require", "for">>,
     loop |-> <<"resize", "set0", "set1", "set2", "set3">>,
     tail |-> <<"del", "return">>]

statements(code) ==
    CASE code = "save_to_sqlite" -> save_to_sqlite
      [] code = "save_to_hdf5" -> save_to_hdf5
      [] code = "save_to_npy" -> save_to_npy

Index(seq, x) == CHOOSE i \in 1..Len(seq) : seq[i] = x

Has(seq, x) == \E i \in 1..Len(seq) : seq[i] = x

\* the statement control reaches after statement pc (after the for
\* statement: with the generator exhausted)
following(code, pc) ==
    LET prog == statements(code)
    IN IF pc = "for" THEN prog.tail[1]
       ELSE IF Has(prog.head, pc) THEN prog.head[Index(prog.head, pc) + 1]
       ELSE IF Has(prog.loop, pc)
       THEN IF Index(prog.loop, pc) < Len(prog.loop)
            THEN prog.loop[Index(prog.loop, pc) + 1]
            ELSE "for"
       ELSE prog.tail[Index(prog.tail, pc) + 1]

\* statement pc of the body that runs is next
at(code, pc) == stage = "running" /\ body = code /\ fr.pc = pc

\* a statement that changes nothing but the position in the body
step(code, pc) ==
    /\ at(code, pc)
    /\ fr' = [fr EXCEPT !.pc = following(code, pc)]
    /\ log' = Append(log, pc)

\* time passes while save_to_sqlite runs
tick ==
    /\ stage = "running"
    /\ body = "save_to_sqlite"
    /\ now < MaxClock
    /\ now' = now + 1
    /\ UNCHANGED <<labvars, globals, wrapped, stage, called, body, ti, ti2, differed, fr, log,
                   produced, npy_mm, h5file, npyfile, retval, nruns>>

\* data_generator = create_data_generator(): nothing of the generator
\* body runs yet
create_generator(code) ==
    /\ step(code, "create_generator")
    /\ UNCHANGED <<labvars, globals, wrapped, stage, called, body, ti, ti2, differed, now,
                   produced, npy_mm, h5file, npyfile, retval, nruns>>

\* for s1_val, s2_val, magn_vals, phas_vals in data_generator: the next
\* tuple, or the end of the loop
for_next(code) ==
    /\ at(code, "for")
    /\ log' = Append(log, "for")
    /\ IF fr.k < fr.n * fr.n
       THEN LET c == produce_measurement_data(fr.n, fr.k, fr.rng)
            IN /\ fr' = [fr EXCEPT !.pc = statements(code).loop[1],
                                   !.chunk = c,
                                   !.k = @ + 1,
                                   !.rng = rand_after_tuple(fr.n, fr.rng)]
               /\ produced' = Append(produced, c)
       ELSE /\ fr' = [fr EXCEPT !.pc = following(code, "for")]
            /\ produced' = produced
    /\ UNCHANGED <<labvars, globals, wrapped, stage, called, body, ti, ti2, differed, now,
                   npy_mm, h5file, npyfile, retval, nruns>>

\* ----------------------------------------------------- save_to_sqlite
\* s1, s2, magn, phas = Parameter(...)
define_parameters ==
    /\ step("save_to_sqlite", "define_parameters")
    /\ UNCHANGED <<labvars, globals, wrapped, stage, called, body, ti, ti2, differed, now,
                   produced, npy_mm, h5file, npyfile, retval, nruns>>

\* meas = Measurement()
new_measurement ==
    /\ step("save_to_sqlite", "Measurement")
    /\ UNCHANGED <<labvars, globals, wrapped, stage, called, body, ti, ti2, differed, now,
                   produced, npy_mm, h5file, npyfile, retval, nruns>>

\* meas.register_parameter(...), four times
register_parameters ==
    /\ step("save_to_sqlite", "register_parameters")
    /\ UNCHANGED <<labvars, globals, wrapped, stage, called, body, ti, ti2, differed, now,
                   produced, npy_mm, h5file, npyfile, retval, nruns>>

\* meas.write_period = write_period
set_write_period ==
    /\ step("save_to_sqlite", "write_period")
    /\ UNCHANGED <<labvars, globals, wrapped, stage, called, body, ti, ti2, differed, now,
                   produced, npy_mm, h5file, npyfile, retval, nruns>>

\* with meas.run() as datasaver: a new run starts
enter_run ==
    /\ at("save_to_sqlite", "enter_run")
    /\ log' = Append(log, "enter_run")
    /\ fr' = [fr EXCEPT !.pc = following("save_to_sqlite", "enter_run"),
                        !.dataset = [paramtype |-> fr.paramtype,
                                     results |-> 0]]
    /\ nruns' = nruns + 1
    /\ UNCHANGED <<labvars, globals, wrapped, stage, called, body, ti, ti2, differed, now,
                   produced, npy_mm, h5file, npyfile, retval>>

\* t0 = time.perf_counter()
take_t0 ==
    /\ at("save_to_sqlite", "t0")
    /\ log' = Append(log, "t0")
    /\ fr' = [fr EXCEPT !.pc = following("save_to_sqlite", "t0"),
                        !.t0 = now]
    /\ UNCHANGED <<labvars, globals, wrapped, stage, called, body, ti, ti2, differed, now,
                   produced, npy_mm, h5file, npyfile, retval, nruns>>

\* datasaver.add_result(...)
add_result ==
    /\ at("save_to_sqlite", "add_result")
    /\ log' = Append(log, "add_result")
    /\ fr' = [fr EXCEPT !.pc = following("save_to_sqlite", "add_result"),
                        !.dataset.results = @ + 1]
    /\ UNCHANGED <<labvars, globals, wrapped, stage, called, body, ti, ti2, differed, now,
                   produced, npy_mm, h5file, npyfile, retval, nruns>>

\* the end of the with block: the run is flushed and completed
exit_run ==
    /\ step("save_to_sqlite", "exit_run")
    /\ UNCHANGED <<labvars, globals, wrapped, stage, called, body, ti, ti2, differed, now,
                   produced, npy_mm, h5file, npyfile, retval, nruns>>

\* t1 = time.perf_counter(); saving_time = t1 - t0
take_t1 ==
    /\ at("save_to_sqlite", "t1")
    /\ log' = Append(log, "t1")
    /\ fr' = [fr EXCEPT !.pc = following("save_to_sqlite", "t1"),
                        !.t1 = now,
                        !.saving_time = now - fr.t0]
    /\ UNCHANGED <<labvars, globals, wrapped, stage, called, body, ti, ti2, differed, now,
                   produced, npy_mm, h5file, npyfile, retval, nruns>>

\* dataset = datasaver.dataset; return saving_time, dataset
return_save_to_sqlite ==
    /\ at("save_to_sqlite", "return")
    /\ log' = Append(log, "return")
    /\ fr' = [fr EXCEPT !.pc = "done"]
    /\ stage' = "returned"
    /\ retval' = [NoReturn EXCEPT !.kind = "tuple",
                                  !.saving_time = fr.saving_time,
                                  !.dataset = fr.dataset]
    /\ UNCHANGED <<labvars, globals, wrapped, called, body, ti, ti2, differed, now,
                   produced, npy_mm, h5file, npyfile, nruns>>

\* ------------------------------------------- save_to_hdf5, save_to_npy
\* save_to_hdf5(make_data_producer(n), filename) and
\* save_to_npy(make_data_producer(n), filename), from the top level
call_save(code, n, seed) ==
    /\ wrapped' = wrapped
    /\ begin_call(code, code, NoWrapper, first_frame(n, None, seed))

\* (n_cols, n_rows + n_pts): the shape the loop body resizes to
grown_shape_no_add(n_cols, n_rows, n_pts) == <<n_cols, n_pts>>

grown_shape(n_cols, n_rows, n_pts) == <<n_cols, n_rows + n_pts>>

\* what the loop body stores in row r for the tuple it holds
row_values(c, r, m) ==
    CASE r = 0 -> broadcast(float64(c.s1_val), m)
      [] r = 1 -> broadcast(float64(c.s2_val), m)
      [] r = 2 -> c.magn_vals
      [] r = 3 -> c.phas_vals

SetPc == <<"set0", "set1", "set2", "set3">>

\* with h5py.File(filename, 'w') as f: the file is created or truncated
h5_open ==
    /\ step("save_to_hdf5", "open")
    /\ h5file' = [exists |-> TRUE, open |-> TRUE, names |-> {},
                  results |-> empty_array(<<0, 0>>)]
    /\ UNCHANGED <<labvars, globals, wrapped, stage, called, body, ti, ti2, differed, now,
                   produced, npy_mm, npyfile, retval, nruns>>

\* ds = f.create_dataset('results', shape=(4, 0), maxshape=(4, None))
h5_create_dataset ==
    /\ step("save_to_hdf5", "create_dataset")
    /\ h5file' = [h5file EXCEPT !.names = @ \cup {"results"},
                                !.results = empty_array(<<4, 0>>)]
    /\ UNCHANGED <<labvars, globals, wrapped, stage, called, body, ti, ti2, differed, now,
                   produced, npy_mm, npyfile, retval, nruns>>

\* n_pts = len(magn_vals); n_cols, n_rows = ds.shape;
\* ds.resize((n_cols, n_rows + n_pts))
h5_resize_dataset ==
    LET n_pts == Len(fr.chunk.magn_vals)
        n_cols == h5file.results.shape[1]
        n_rows == h5file.results.shape[2]
    IN /\ at("save_to_hdf5", "resize")
       /\ log' = Append(log, "resize")
       /\ fr' = [fr EXCEPT !.pc = following("save_to_hdf5", "resize"),
                           !.n_pts = n_pts, !.n_cols = n_cols,
                           !.n_rows = n_rows]
       /\ h5file' = [h5file EXCEPT !.results =
                        h5_resize(@, grown_shape(n_cols, n_rows, n_pts))]
       /\ UNCHANGED <<labvars, globals, wrapped, stage, called, body, ti, ti2, differed, now,
                      produced, npy_mm, npyfile, retval, nruns>>

\* ds[r, n_rows:n_rows+n_pts] = ...
h5_set(r) ==
    /\ step("save_to_hdf5", SetPc[r + 1])
    /\ h5file' = [h5file EXCEPT !.results =
                     h5_setitem(@, r, fr.n_rows, fr.n_rows + fr.n_pts,
                                row_values(fr.chunk, r, fr.n_pts))]
    /\ UNCHANGED <<labvars, globals, wrapped, stage, called, body, ti, ti2, differed, now,
                   produced, npy_mm, npyfile, retval, nruns>>

\* the end of the with block closes the file
h5_close ==
    /\ step("save_to_hdf5", "close")
    /\ h5file' = [h5file EXCEPT !.open = FALSE]
    /\ UNCHANGED <<labvars, globals, wrapped, stage, called, body, ti, ti2, differed, now,
                   produced, npy_mm, npyfile, retval, nruns>>

\* the body ends without a return statement: the call returns None
return_none(code) ==
    /\ at(code, "return")
    /\ log' = Append(log, "return")
    /\ fr' = [fr EXCEPT !.pc = "done"]
    /\ stage' = "returned"
    /\ retval' = [NoReturn EXCEPT !.kind = "None"]
    /\ UNCHANGED <<labvars, globals, wrapped, called, body, ti, ti2, differed, now,
                   produced, npy_mm, h5file, npyfile, nruns>>

\* npy_mm = numpy.lib.format.open_memmap(filename, mode='w+', shape=(4, 0))
npy_open_memmap ==
    /\ step("save_to_npy", "open_memmap")
    /\ npyfile' = open_memmap(<<4, 0>>).file
    /\ npy_mm' = open_memmap(<<4, 0>>).array
    /\ UNCHANGED <<labvars, globals, wrapped, stage, called, body, ti, ti2, differed, now,
                   produced, h5file, retval, nruns>>

\* npy_mm = numpy.require(npy_mm, requirements=['OWNDATA']): the name is
\* bound to what require returns, the array it was bound to is dropped
npy_require ==
    /\ step("save_to_npy", "require")
    /\ npy_mm' = require_owndata(npy_mm)
    /\ UNCHANGED <<labvars, globals, wrapped, stage, called, body, ti, ti2, differed, now,
                   produced, h5file, npyfile, retval, nruns>>

\* n_pts = len(magn_vals); n_cols, n_rows = npy_mm.shape;
\* npy_mm.resize((n_cols, n_rows + n_pts)), which raises ValueError for an
\* array that does not own its data
npy_resize ==
    LET n_pts == Len(fr.chunk.magn_vals)
        n_cols == npy_mm.a.shape[1]
        n_rows == npy_mm.a.shape[2]
    IN /\ at("save_to_npy", "resize")
       /\ log' = Append(log, "resize")
       /\ IF npy_mm.owndata
          THEN /\ fr' = [fr EXCEPT !.pc = following("save_to_npy", "resize"),
                                   !.n_pts = n_pts, !.n_cols = n_cols,
                                   !.n_rows = n_rows]
               /\ npy_mm' = [npy_mm EXCEPT !.a =
                                ndarray_resize(@, grown_shape(n_cols, n_rows,
                                                    n_pts))]
               /\ stage' = stage
          ELSE /\ fr' = [fr EXCEPT !.pc = "done"]
               /\ npy_mm' = npy_mm
               /\ stage' = "raised"
       /\ UNCHANGED <<labvars, globals, wrapped, called, body, ti, ti2, differed, now,
                      produced, h5file, npyfile, retval, nruns>>

\* npy_mm[r, n_rows:n_rows+n_pts] = ...: into the array, and into the
\* file when the array maps it
npy_set(r) ==
    LET a == setitem(npy_mm.a, r, fr.n_rows, fr.n_rows + fr.n_pts,
                     row_values(fr.chunk, r, fr.n_pts))
    IN /\ step("save_to_npy", SetPc[r + 1])
       /\ npy_mm' = [npy_mm EXCEPT !.a = a]
       /\ npyfile' = IF npy_mm.mapped
                     THEN [npyfile EXCEPT !.data = a.flat]
                     ELSE npyfile
       /\ UNCHANGED <<labvars, globals, wrapped, stage, called, body, ti, ti2, differed, now,
                      produced, h5file, retval, nruns>>

\* del npy_mm: the array is released; the file is left as it is
npy_del ==
    /\ step("save_to_npy", "del")
    /\ npy_mm' = NoArray
    /\ UNCHANGED <<labvars, globals, wrapped, stage, called, body, ti, ti2, differed, now,
                   produced, h5file, npyfile, retval, nruns>>

\* ----------------------------------------------- instrument notebooks
\* A notebook is a sequence of cells and a cell a sequence of statements;
\* a for loop over a list or a range stands for its iterations in order.
Stmt(op, handle, method, arg) ==
    [op |-> op, handle |-> handle, method |-> method, arg |-> arg]

\* h = Driver(name, address): the connection to the instrument is opened
Open(h) == Stmt("open", h, "connect", 0)

\* h.method(...)
Call(h, method) == Stmt("call", h, method, 0)

\* a statement that talks to no instrument
Compute(what) == Stmt("compute", None, what, 0)

\* times = np.zeros(no_of_reps)
Zeros(n) == Stmt("zeros", None, "times", n)

\* var = time.time() or var = time.perf_counter()
Time(var, clock) == Stmt("time", clock, var, 0)

\* print(text)
PrintLine(text, n) == Stmt("print", None, text, n)

\* print('... {} ... {} s'.format(N, t_stop-t_start))
PrintElapsed(what, N) == Stmt("print_elapsed", what, "t_stop-t_start", N)

\* times[n] = t_stop - t_start
Record(n) == Stmt("record", None, "times", n)

\* print('Time spent: {} s, deviation {} s'.format(np.mean(times), ...))
PrintSummary == Stmt("print_summary", None, "np.mean(times)", 0)

RECURSIVE Flatten(_)
Flatten(seqs) ==
    IF seqs = <<>> THEN <<>> ELSE Head(seqs) \o Flatten(Tail(seqs))

\* for N in [512, 1024, 2048], every count divided by 512 / ReadScale
Ns == <<ReadScale, 2 * ReadScale, 4 * ReadScale>>

\* ------------------------------- Agilent 34411A versus Keysight 34465A
cell_imports == <<Compute("import")>>

cell_connect == <<Open("ks"), Open("agi"), Open("qdac")>>

cell_station == <<Compute("station")>>

cell_setup ==
    <<Call("ks", "NPLC"), Call("agi", "NPLC"),
      Call("ks", "range"), Call("agi", "range")>>

\* N readings of h between t_start and t_stop, and the line printed
timed_reads_one_less(h, name, N) ==
    <<Time("t_start", "time")>>
    \o [ii \in 1..(N - 1) |-> Call(h, "volt")]
    \o <<Time("t_stop", "time"), PrintElapsed(name, N)>>

timed_reads(h, name, N) ==
    <<Time("t_start", "time")>>
    \o [ii \in 1..N |-> Call(h, "volt")]
    \o <<Time("t_stop", "time"), PrintElapsed(name, N)>>

cell_displays_on ==
    <<Call("ks", "display_clear"), Call("agi", "display_clear"),
      PrintLine("Reading with displays ON", 0), PrintLine("-", 10)>>
    \o Flatten([k \in 1..Len(Ns) |->
           timed_reads("ks", "Keysight", Ns[k])
           \o timed_reads("agi", "Agilent", Ns[k])
           \o <<PrintLine("-", 10)>>])

cell_displays_off_text_after_reads ==
    <<PrintLine("Reading with displays OFF", 0), PrintLine("-", 10)>>
    \o Flatten([k \in 1..Len(Ns) |->
           timed_reads("ks", "Keysight", Ns[k])
           \o <<Call("ks", "display_text")>>
           \o <<Call("ks", "display_clear")>>
           \o <<Call("agi", "display_text")>>
           \o timed_reads("agi", "Agilent", Ns[k])
           \o <<Call("agi", "display_clear")>>
           \o <<PrintLine("-", 10)>>])

cell_displays_off ==
    <<PrintLine("Reading with displays OFF", 0), PrintLine("-", 10)>>
    \o Flatten([k \in 1..Len(Ns) |->
           <<Call("ks", "display_text")>>
           \o timed_reads("ks", "Keysight", Ns[k])
           \o <<Call("ks", "display_clear")>>
           \o <<Call("agi", "display_text")>>
           \o timed_reads("agi", "Agilent", Ns[k])
           \o <<Call("agi", "display_clear")>>
           \o <<PrintLine("-", 10)>>])

\* qc.Loop(qdac.<ch>.sweep(V1, V2, dV)).each(h.volt), run: at each of the
\* N set points the channel is set and h is read
loop_run(ch, h, N) ==
    Flatten([i \in 1..N |-> <<Call("qdac", ch), Call(h, "volt")>>])

\* qc.Loop(<outer>).loop(<inner>).each(h.volt), run
loop_run_2d(outer, inner, h, N) ==
    Flatten([i \in 1..N |-> <<Call("qdac", outer)>> \o loop_run(inner, h, N)])

\* loop = ...; data = ...; t_start; _ = loop.run(); t_stop; print
timed_sweep(run, name, N) ==
    <<Compute("loop"), Compute("data"), Time("t_start", "time")>>
    \o run
    \o <<Time("t_stop", "time"), PrintElapsed(name, N)>>

cell_sweep_1d ==
    <<Call("ks", "display_text"), Call("agi", "display_text"),
      Compute("N, V1, V2, dV")>>
    \o timed_sweep(loop_run("ch42_v", "ks", N_1d), "QDac/Keysight", N_1d)
    \o timed_sweep(loop_run("ch41_v", "agi", N_1d), "QDac/Agilent", N_1d)
    \o <<Call("agi", "display_clear"), Call("ks", "display_clear")>>

cell_sweep_2d ==
    <<Call("ks", "display_text"), Call("agi", "display_text"),
      Compute("N, V1, V2, dV")>>
    \o timed_sweep(loop_run_2d("ch42_v", "ch41_v", "ks", N_2d),
                   "QDac/Keysight", N_2d)
    \o timed_sweep(loop_run_2d("ch41_v", "ch42_v", "agi", N_2d),
                   "QDac/Agilent", N_2d)
    \o <<Call("ks", "display_clear"), Call("agi", "display_clear")>>

cell_close == <<Call("ks", "close"), Call("agi", "close"), Call("qdac", "close")>>

dmm_notebook_closed_early ==
    <<cell_imports, cell_connect, cell_station, cell_setup, cell_displays_on,
      cell_displays_off, cell_sweep_1d, cell_close, cell_sweep_2d>>

dmm_notebook ==
    <<cell_imports, cell_connect, cell_station, cell_setup, cell_displays_on,
      cell_displays_off, cell_sweep_1d, cell_sweep_2d, cell_close>>

\* ------------------- Benchmark of waveform upload to Tektronix AWG70002A
awg_connect == <<Open("awg")>>

awg_waveforms == <<Compute("wfms, m1s, m2s")>>

awg_wfmx_files == <<Compute("wfmx_files")>>

awg_sequencing == <<Compute("trig_waits, nreps, event_jumps, go_to")>>

awg_shape == <<Compute("type(wfmx_files)")>>

awg_send_wfmx ==
    <<Call("awg", "sendWFMXFile"), Call("awg", "loadWFMXFile")>>

awg_seqx_file == <<Compute("seqx_file")>>

awg_def_benchmark == <<Compute("def benchmark_seqx")>>

\* the body of benchmark_seqx; n counts from 0
benchmark_seqx_load_first(reps) ==
    <<Zeros(reps),
      Call("awg", "clearSequenceList"), Call("awg", "clearWaveformList")>>
    \o Flatten([n \in 1..reps |->
           <<Time("t_start", "perf_counter"),
             Call("awg", "loadSEQXFile"),
             Call("awg", "sendSEQXFile"),
             Call("awg", "ask *OPC?"),
             Call("awg", "setSequenceTrack"),
             Time("t_stop", "perf_counter"),
             Record(n - 1),
             PrintLine("Completed run", n)>>])
    \o <<Compute("return times")>>

benchmark_seqx(reps) ==
    <<Zeros(reps),
      Call("awg", "clearSequenceList"), Call("awg", "clearWaveformList")>>
    \o Flatten([n \in 1..reps |->
           <<Time("t_start", "perf_counter"),
             Call("awg", "sendSEQXFile"),
             Call("awg", "ask *OPC?"),
             Call("awg", "loadSEQXFile"),
             Call("awg", "setSequenceTrack"),
             Time("t_stop", "perf_counter"),
             Record(n - 1),
             PrintLine("Completed run", n)>>])
    \o <<Compute("return times")>>

awg_benchmark ==
    benchmark_seqx(no_of_reps)
    \o <<PrintLine("-", 25), PrintLine("Benchmark complete.", 0),
         PrintSummary>>

awg_close == <<Call("awg", "close")>>

awg_notebook ==
    <<cell_imports, awg_connect, awg_waveforms, awg_wfmx_files,
      awg_sequencing, awg_shape, awg_send_wfmx, awg_seqx_file,
      awg_def_benchmark, awg_benchmark, awg_close>>

\* the cells of a notebook, top to bottom
script(nb) ==
    CASE nb = "dmm" -> dmm_notebook
      [] nb = "awg" -> awg_notebook
      [] OTHER -> <<>>

\* ------------------------------------------- running a notebook's cells
Instruments == {"ks", "agi", "qdac", "awg"}

\* an instrument name before its cell has run
Unbound == [state |-> "unbound", display |-> "on", configured |-> {}]

\* the variables of the kernel; p_start, p_stop and p_times are what
\* time.perf_counter() would have given where t_start, t_stop and times
\* were set
NoEnv == [t_start |-> 0, t_stop |-> 0, p_start |-> 0, p_stop |-> 0,
          timing |-> FALSE, times |-> <<>>, p_times |-> <<>>,
          error |-> None]

\* t_start and t_stop are not read again before they are set again:
\* they are left out of the state after the statement that reads them
forget(e) ==
    [e EXCEPT !.t_start = 0, !.t_stop = 0, !.p_start = 0, !.p_stop = 0]

\* the kernel of notebook nb before its first cell
LabInit(nb) ==
    /\ notebook = nb
    /\ cell = IF script(nb) = <<>> THEN 0 ELSE 1
    /\ pos = 1
    /\ handles = [h \in Instruments |-> Unbound]
    /\ pending = {}
    /\ env = NoEnv
    /\ trace = <<>>
    /\ skew = 0

in_cell == cell \in 1..Len(script(notebook)) /\ env.error = None

end_of_cell == in_cell /\ pos = Len(script(notebook)[cell]) + 1

at_stmt == in_cell /\ pos \in 1..Len(script(notebook)[cell])

stmt == script(notebook)[cell][pos]

\* the run is over: the last cell has run to its end
done == end_of_cell /\ cell = Len(script(notebook)) /\ pending = {}

\* time.perf_counter() and time.time(): the system clock can be set
\* while the notebook runs, the performance counter cannot
clock_reading_system(clock) == now + skew

clock_reading(clock) ==
    IF clock = "perf_counter" THEN now ELSE now + skew

\* the methods that set an instrument up
Configuring ==
    {"NPLC", "range", "display_text", "display_clear",
     "clearSequenceList", "clearWaveformList"}

\* the instrument after a call of method has returned
after_call(h, method, display) ==
    CASE method = "connect" ->
             [state |-> "open", display |-> display, configured |-> {}]
      [] method = "close" -> [h EXCEPT !.state = "closed"]
      [] method = "display_text" ->
             [h EXCEPT !.display = "text", !.configured = @ \cup {method}]
      [] method = "display_clear" ->
             [h EXCEPT !.display = "on", !.configured = @ \cup {method}]
      [] method \in Configuring -> [h EXCEPT !.configured = @ \cup {method}]
      [] OTHER -> h

\* a call blocks: the statement after it is reached when it has returned
after_issue(p) == p

\* the next statement calls an instrument: the call is issued (on a name
\* that is not bound, or on a closed connection, it raises and the run of
\* the notebook stops)
issue ==
    /\ at_stmt
    /\ stmt.op \in {"open", "call"}
    /\ \A c \in pending : c.at # <<cell, pos>>
    /\ IF stmt.op = "open" \/ handles[stmt.handle].state = "open"
       THEN /\ pending' = pending \cup {[stmt |-> stmt, at |-> <<cell, pos>>]}
            /\ pos' = after_issue(pos)
            /\ env' = env
       ELSE /\ env' = [env EXCEPT !.error = "closed"]
            /\ UNCHANGED <<pending, pos>>
    /\ UNCHANGED <<notebook, cell, handles, trace, skew>>
    /\ UNCHANGED <<globals, wrapped, stage, called, body, ti, ti2, differed,
                   fr, now, log, produced, npy_mm, h5file, npyfile, retval,
                   nruns>>

\* a call returns after d units of time; a connection just opened finds
\* the display as it was left
complete(d, display) ==
    /\ now + d <= MaxClock
    /\ \E c \in pending :
          /\ pending' = pending \ {c}
          /\ display = "on" \/ c.stmt.op = "open"
          /\ handles' = [handles EXCEPT ![c.stmt.handle] =
                            after_call(@, c.stmt.method, display)]
          /\ trace' = Append(trace, c.stmt)
          /\ pos' = IF c.at = <<cell, pos>> THEN pos + 1 ELSE pos
    /\ now' = now + d
    /\ UNCHANGED <<notebook, cell, env, skew>>
    /\ UNCHANGED <<globals, wrapped, stage, called, body, ti, ti2, differed,
                   fr, log, produced, npy_mm, h5file, npyfile, retval, nruns>>

\* t_start = time.time() and the like
take_time ==
    /\ at_stmt
    /\ stmt.op = "time"
    /\ env' = IF stmt.method = "t_start"
              THEN [env EXCEPT !.t_start = clock_reading(stmt.handle),
                               !.p_start = now, !.timing = TRUE]
              ELSE [env EXCEPT !.t_stop = clock_reading(stmt.handle),
                               !.p_stop = now, !.timing = FALSE]
    /\ trace' = Append(trace, stmt)
    /\ pos' = pos + 1
    /\ UNCHANGED <<notebook, cell, handles, pending, skew>>
    /\ UNCHANGED <<globals, wrapped, stage, called, body, ti, ti2, differed,
                   fr, now, log, produced, npy_mm, h5file, npyfile, retval,
                   nruns>>

\* times[n] = t_stop - t_start
record ==
    /\ at_stmt
    /\ stmt.op = "record"
    /\ env' = forget([env EXCEPT
                          !.times[stmt.arg + 1] = env.t_stop - env.t_start,
                          !.p_times[stmt.arg + 1] = env.p_stop - env.p_start])
    /\ trace' = Append(trace, stmt)
    /\ pos' = pos + 1
    /\ UNCHANGED <<notebook, cell, handles, pending, skew>>
    /\ UNCHANGED <<globals, wrapped, stage, called, body, ti, ti2, differed,
                   fr, now, log, produced, npy_mm, h5file, npyfile, retval,
                   nruns>>

\* print(...): a line of text, an elapsed time, or the mean of times
print ==
    /\ at_stmt
    /\ stmt.op \in {"print", "print_elapsed", "print_summary"}
    /\ trace' = Append(trace, stmt)
    /\ env' = IF stmt.op = "print_elapsed" THEN forget(env) ELSE env
    /\ pos' = pos + 1
    /\ UNCHANGED <<notebook, cell, handles, pending, skew>>
    /\ UNCHANGED <<globals, wrapped, stage, called, body, ti, ti2, differed,
                   fr, now, log, produced, npy_mm, h5file, npyfile, retval,
                   nruns>>

\* a statement that talks to no instrument
compute ==
    /\ at_stmt
    /\ stmt.op \in {"compute", "zeros"}
    /\ env' = IF stmt.op = "zeros"
              THEN [env EXCEPT !.times = [i \in 1..stmt.arg |-> 0],
                               !.p_times = [i \in 1..stmt.arg |-> 0]]
              ELSE env
    /\ trace' = Append(trace, stmt)
    /\ pos' = pos + 1
    /\ UNCHANGED <<notebook, cell, handles, pending, skew>>
    /\ UNCHANGED <<globals, wrapped, stage, called, body, ti, ti2, differed,
                   fr, now, log, produced, npy_mm, h5file, npyfile, retval,
                   nruns>>

\* the cell is over and the next one is run
next_cell ==
    /\ end_of_cell
    /\ pending = {}
    /\ cell < Len(script(notebook))
    /\ cell' = cell + 1
    /\ pos' = 1
    /\ trace' = <<>>
    /\ UNCHANGED <<notebook, handles, pending, env, skew>>
    /\ UNCHANGED <<globals, wrapped, stage, called, body, ti, ti2, differed,
                   fr, now, log, produced, npy_mm, h5file, npyfile, retval,
                   nruns>>

\* the system clock is set (by hand, or by the time service)
set_system_clock(s) ==
    /\ in_cell
    /\ ~done
    /\ s # skew
    /\ skew' = s
    /\ UNCHANGED <<notebook, cell, pos, handles, pending, env, trace>>
    /\ UNCHANGED <<globals, wrapped, stage, called, body, ti, ti2, differed,
                   fr, now, log, produced, npy_mm, h5file, npyfile, retval,
                   nruns>>

\* the notebooks; each runs in a kernel of its own
Notebooks == {"sqlite", "dmm", "awg"}

Init ==
    /\ globals = [name \in Names |-> Undefined]
    /\ wrapped = {}
    /\ stage = "idle"
    /\ called = "none"
    /\ body = "none"
    /\ ti = NoWrapper
    /\ ti2 = NoWrapper
    /\ differed = FALSE
    /\ fr = NoFrame
    /\ now = 0
    /\ log = <<>>
    /\ produced = <<>>
    /\ npy_mm = NoArray
    /\ h5file = NoH5File
    /\ npyfile = NoNpyFile
    /\ retval = NoReturn
    /\ nruns = 0
    /\ \E nb \in Notebooks : LabInit(nb)

Savers == {"save_to_sqlite", "save_to_hdf5", "save_to_npy"}

Next ==
    \/ run_cell_save_to_sqlite
    \/ end_cell
    \/ \E name \in Names, n \in 0..MaxN, paramtype \in {"numeric", "array"},
          seed \in 0..(RngMod - 1) :
          call_global(name, n, paramtype, seed)
    \/ \E number \in {NoNumber} \cup 0..MaxNumber, repeat \in 0..MaxRepeat,
          n \in WrapperArgs :
          call_time_it(number, repeat, n)
    \/ \E call \in SutCalls : sut_call(call)
    \/ \E e \in Errors : sut_raise(e)
    \/ wrapper_return
    \/ tick
    \/ \E code \in Savers : create_generator(code)
    \/ \E code \in Savers : for_next(code)
    \/ define_parameters
    \/ new_measurement
    \/ register_parameters
    \/ set_write_period
    \/ enter_run
    \/ take_t0
    \/ add_result
    \/ exit_run
    \/ take_t1
    \/ return_save_to_sqlite
    \/ \E code \in {"save_to_hdf5", "save_to_npy"}, n \in 0..MaxN,
          seed \in 0..(RngMod - 1) :
          call_save(code, n, seed)
    \/ h5_open
    \/ h5_create_dataset
    \/ h5_resize_dataset
    \/ \E r \in 0..3 : h5_set(r)
    \/ h5_close
    \/ \E code \in {"save_to_hdf5", "save_to_npy"} : return_none(code)
    \/ npy_open_memmap
    \/ npy_require
    \/ npy_resize
    \/ \E r \in 0..3 : npy_set(r)
    \/ npy_del
    \/ issue
    \/ \E d \in 0..1, display \in {"on", "text"} : complete(d, display)
    \/ take_time
    \/ record
    \/ print
    \/ compute
    \/ next_cell
    \/ \E s \in 0..MaxSkew : set_system_clock(s)

Spec == Init /\ [][Next]_vars

\* ------------------------------------- two wrapper calls side by side
\* Two calls of one wrapper with the same arguments, in which the
\* executions of sut report the same times one by one, and may differ in
\* everything else: the other return values, returning a tuple or a
\* single value, the time the execution really took.
InitPair ==
    /\ globals = [name \in Names |-> Undefined]
    /\ wrapped = {}
    /\ stage = "running"
    /\ called = "time_it"
    /\ body = "wrapper"
    /\ \E number \in {NoNumber} \cup 0..MaxNumber, repeat \in 0..MaxRepeat,
          n \in WrapperArgs :
          /\ ti = wrapper_begin(number, repeat, n)
          /\ ti2 = wrapper_begin(number, repeat, n)
    /\ differed = FALSE
    /\ fr = NoFrame
    /\ now = 0
    /\ log = <<>>
    /\ produced = <<>>
    /\ npy_mm = NoArray
    /\ h5file = NoH5File
    /\ npyfile = NoNpyFile
    /\ retval = NoReturn
    /\ nruns = 0
    /\ LabInit("sqlite")

\* the wrapper is about to execute sut
executing(st) ==
    /\ st.pc \in {"autorange", "repeat"}
    /\ st.batch <= MaxBatch \/ st.pc = "repeat"

\* each call executes sut once, both executions reporting the same time
pair_sut_call(call, call2) ==
    /\ reported_time(call) = reported_time(call2)
    /\ executing(ti) \/ executing(ti2)
    /\ ti' = IF executing(ti) THEN inner_iteration(ti, call) ELSE ti
    /\ ti2' = IF executing(ti2) THEN inner_iteration(ti2, call2) ELSE ti2
    /\ differed' = (differed \/ call # call2)
    /\ UNCHANGED <<labvars, globals, wrapped, stage, called, body, fr, now, log,
                   produced, npy_mm, h5file, npyfile, retval, nruns>>

\* each call computes its result and returns
pair_return ==
    /\ ~executing(ti)
    /\ ~executing(ti2)
    /\ ti.pc = "results" \/ ti2.pc = "results"
    /\ ti' = IF ti.pc = "results" THEN wrapper_finish(ti) ELSE ti
    /\ ti2' = IF ti2.pc = "results" THEN wrapper_finish(ti2) ELSE ti2
    /\ UNCHANGED <<labvars, globals, wrapped, stage, called, body, differed, fr, now,
                   log, produced, npy_mm, h5file, npyfile, retval, nruns>>

NextPair ==
    \/ \E call \in SutCalls, call2 \in SutCalls : pair_sut_call(call, call2)
    \/ pair_return

SpecPair == InitPair /\ [][NextPair]_vars

\* ------------------------------------------------------------- claims
WrapperRuns == body = "wrapper" /\ stage \in {"running", "returned", "raised"}

\* C1: a wrapper made by time_it(number=k, repeat=r) executes sut exactly
\* k*r times in one call (never more while it runs, exactly k*r once the
\* timing is over), each time with the arguments the wrapper was given.
C1_SutRunsNumberTimesRepeat ==
    (WrapperRuns /\ ti.number # NoNumber) =>
        /\ ti.calls <= ti.number * ti.repeat
        /\ ti.pc \in {"results", "returned", "raised"} =>
               ti.calls = ti.number * ti.repeat
        /\ ti.passed \subseteq {ti.args}
        /\ ti.calls > 0 => ti.passed = {ti.args}

C1_Witness ==
    /\ WrapperRuns
    /\ ti.pc = "returned"
    /\ ti.number = 3
    /\ ti.repeat = 2
    /\ ti.calls = 6

IsPrefix(s, t) == Len(s) <= Len(t) /\ \A i \in 1..Len(s) : s[i] = t[i]

C2_Sums ==
    WrapperRuns =>
        /\ Len(ti.cur) = ti.i
        /\ ti.total_time = SumSeq(ti.cur)
        /\ ti.all_runs # <<>> =>
               /\ Len(ti.last) = ti.number_
               /\ ti.all_runs[Len(ti.all_runs)] = SumSeq(ti.last)

C2_Result ==
    (WrapperRuns /\ ti.pc = "returned") =>
        LET res == ti.result
        IN /\ Len(ti.all_runs) = ti.repeat
           /\ res.all_runs = ti.all_runs
           /\ res.loops = ti.number_
           /\ res.repeat = ti.repeat
           /\ res.best.den = ti.number_
           /\ res.worst.den = ti.number_
           /\ \A i \in 1..Len(ti.all_runs) :
                  res.best.num <= ti.all_runs[i] /\ ti.all_runs[i] <= res.worst.num
           /\ \E i \in 1..Len(ti.all_runs) : res.best.num = ti.all_runs[i]
           /\ \E i \in 1..Len(ti.all_runs) : res.worst.num = ti.all_runs[i]
           /\ QuotLeq(res.best, res.worst)

C2_Collected ==
    ti.pc \in {"autorange", "repeat", "results"} =>
        /\ IsPrefix(ti.all_runs, ti'.all_runs)
        /\ Len(ti'.all_runs) <= Len(ti.all_runs) + 1

\* C2: every entry of all_runs is the sum of the times sut reported in
\* the number_ executions of its repetition (it is so when the entry is
\* appended, and entries are never changed afterwards); best and worst are
\* the least and the greatest entry divided by number_, best <= worst, and
\* the TimeitResult carries loops = number_ and repeat = repeat.
C2_TimesAreSumsAndAverages ==
    [](C2_Sums /\ C2_Result) /\ [][C2_Collected]_vars

C2_Witness ==
    /\ WrapperRuns
    /\ ti.pc = "returned"
    /\ ti.repeat = 2
    /\ ti.number_ = 2
    /\ ti.result.best.num = 1
    /\ ti.result.worst.num = 2

LexLess(a, b) == a[1] < b[1] \/ (a[1] = b[1] /\ a[2] < b[2])

Exhausted ==
    /\ body \in Savers
    /\ stage \in {"running", "returned"}
    /\ Has(statements(body).tail, fr.pc) \/ fr.pc = "done"

\* C6: the data generator yields exactly n*n tuples, in lexicographic
\* order of (s1_val, s2_val) over 0..n-1 each, every magn_vals and
\* phas_vals with n*n elements: n**4 values per parameter in all.
C6_ProducerYieldsGridInOrder ==
    body \in Savers =>
        /\ Len(produced) = fr.k
        /\ fr.k <= fr.n * fr.n
        /\ \A j \in 1..Len(produced) :
               /\ produced[j].s1_val \in 0..(fr.n - 1)
               /\ produced[j].s2_val \in 0..(fr.n - 1)
               /\ Len(produced[j].magn_vals) = fr.n * fr.n
               /\ Len(produced[j].phas_vals) = fr.n * fr.n
               /\ \A i \in 1..(j - 1) :
                      LexLess(<<produced[i].s1_val, produced[i].s2_val>>,
                              <<produced[j].s1_val, produced[j].s2_val>>)
        /\ Exhausted =>
               /\ Len(produced) = fr.n * fr.n
               /\ SumSeq([j \in 1..Len(produced) |->
                             Len(produced[j].magn_vals)])
                      = fr.n * fr.n * fr.n * fr.n

C6_Witness ==
    /\ Exhausted
    /\ fr.n = 2
    /\ Len(produced) = 4
    /\ produced[2].s1_val = 0
    /\ produced[2].s2_val = 1

\* the array a writer grows, once it exists
TheArray == IF body = "save_to_hdf5" THEN h5file.results ELSE npy_mm.a

ArrayLive ==
    \/ body = "save_to_hdf5" /\ "results" \in h5file.names
    \/ body = "save_to_npy" /\ npy_mm # NoArray

\* tuples whose columns the array has been given
Resized == IF fr.pc = "resize" THEN fr.k - 1 ELSE fr.k

C7_Shape ==
    ArrayLive =>
        /\ TheArray.shape[1] = 4
        /\ TheArray.shape[2] = Resized * fr.n * fr.n
        /\ Len(TheArray.flat) = 4 * TheArray.shape[2]

C7_Grows ==
    /\ (~ArrayLive /\ ArrayLive') => TheArray'.shape = <<4, 0>>
    /\ (ArrayLive /\ ArrayLive') =>
           \/ TheArray'.shape = TheArray.shape
           \/ /\ fr.pc = "resize"
              /\ TheArray'.shape =
                     <<4, TheArray.shape[2] + Len(fr.chunk.magn_vals)>>

\* C7: the array of save_to_hdf5 and of save_to_npy always has 4 rows;
\* its column count starts at 0, never decreases and grows by
\* len(magn_vals) per tuple, so it is k*n*n after k tuples.
C7_ArrayGrowsByChunks == []C7_Shape /\ [][C7_Grows]_vars

C7_Witness ==
    /\ ArrayLive
    /\ body = "save_to_npy"
    /\ fr.n = 2
    /\ fr.k = 3
    /\ TheArray.shape = <<4, 12>>

\* C3: two calls of a wrapper whose executions of sut report the same
\* times have the same number_, all_runs, best and worst (the same
\* TimeitResult, or the same error), whatever else sut returns and however
\* long its executions really take.
C3_ResultDependsOnReportedTimesOnly ==
    /\ ti.pc = ti2.pc
    /\ ti.number_ = ti2.number_
    /\ ti.all_runs = ti2.all_runs
    /\ ti.calls = ti2.calls
    /\ ti.result = ti2.result
    /\ ti.error = ti2.error

C3_Witness ==
    /\ differed
    /\ ti.pc = "returned"
    /\ ti2.pc = "returned"
    /\ ti.number = NoNumber
    /\ ti.number_ = 2
    /\ ti.repeat = 2
    /\ ti.result.worst.num = 2

\* what the tuples produced put at row r, column col of the saved array
Expected(r, col) ==
    LET nn == fr.n * fr.n
        c == produced[(col \div nn) + 1]
        p == (col % nn) + 1
    IN CASE r = 0 -> float64(c.s1_val)
         [] r = 1 -> float64(c.s2_val)
         [] r = 2 -> c.magn_vals[p]
         [] r = 3 -> c.phas_vals[p]

HoldsProduced(a) ==
    /\ a.shape = <<4, fr.n * fr.n * fr.n * fr.n>>
    /\ \A r \in 0..3, col \in 0..(a.shape[2] - 1) :
           item(a, r, col) = Expected(r, col)

\* C4: after save_to_hdf5 has returned, the file holds the single dataset
\* 'results' of shape (4, n**4), whose columns hold, tuple by tuple, the
\* s1 value, the s2 value, the magn values and the phas values produced.
C4_Hdf5FileHoldsProducedData ==
    (body = "save_to_hdf5" /\ stage = "returned") =>
        /\ h5file.exists
        /\ ~h5file.open
        /\ h5file.names = {"results"}
        /\ HoldsProduced(h5file.results)

\* C5: after save_to_npy has returned, numpy.load(filename) gives the
\* 4 x n**4 array of all the tuples written, in order.
C5_NpyFileHoldsSavedData ==
    (body = "save_to_npy" /\ stage = "returned") =>
        /\ npyfile.exists
        /\ HoldsProduced(numpy_load(npyfile))

\* C8: save_to_hdf5 and save_to_npy return saving_time, the time the
\* saving took.
C8_WritersReturnSavingTime ==
    (body \in {"save_to_hdf5", "save_to_npy"} /\ stage = "returned") =>
        /\ retval.kind # "None"
        /\ retval.saving_time \in 0..MaxClock

InLog(e) == Has(log, e)

\* a is done before b is (each at most once)
Before(a, b) == InLog(b) => (InLog(a) /\ Index(log, a) < Index(log, b))

\* C9: in save_to_sqlite the parameters, the Measurement, the
\* registrations, write_period and the entry into meas.run() all come
\* before t0 is taken; every add_result comes after t0 and before the exit
\* of the run context, which comes before t1 is taken; and
\* saving_time = t1 - t0.
C9_TimedIntervalOfSaveToSqlite ==
    (body = "save_to_sqlite" /\ stage \in {"running", "returned"}) =>
        /\ \A e \in {"define_parameters", "Measurement",
                     "register_parameters", "write_period", "enter_run"} :
               Before(e, "t0")
        /\ \A i \in 1..Len(log) : log[i] = "add_result" =>
               /\ InLog("t0") /\ Index(log, "t0") < i
               /\ InLog("exit_run") => i < Index(log, "exit_run")
               /\ InLog("t1") => i < Index(log, "t1")
        /\ Before("t0", "exit_run")
        /\ Before("exit_run", "t1")
        /\ Before("t1", "return")
        /\ InLog("t0") => fr.t0 <= now
        /\ InLog("t1") =>
               /\ fr.t0 <= fr.t1
               /\ fr.saving_time = fr.t1 - fr.t0
        /\ stage = "returned" =>
               /\ retval.saving_time = fr.t1 - fr.t0
               /\ fr.dataset.results = fr.n * fr.n

C9_Witness ==
    /\ body = "save_to_sqlite"
    /\ stage = "returned"
    /\ fr.n = 2
    /\ fr.t0 = 1
    /\ retval.saving_time = 2

\* C10: creating and calling the wrappers leaves save_to_sqlite what its
\* def made it: a direct call runs the body of save_to_sqlite, makes
\* exactly one measurement and returns the pair (saving_time, dataset).
C10_SaveToSqliteLeftIntact ==
    /\ globals["save_to_sqlite"] \in {Undefined, def("save_to_sqlite")}
    /\ (called = "save_to_sqlite" /\ stage = "running") =>
           body = "save_to_sqlite" /\ nruns <= 1
    /\ (called = "save_to_sqlite" /\ stage = "returned") =>
           /\ body = "save_to_sqlite"
           /\ nruns = 1
           /\ retval.kind = "tuple"
           /\ retval.dataset.paramtype = fr.paramtype

C10_Witness ==
    /\ called = "save_to_sqlite"
    /\ stage = "returned"
    /\ wrapped = {"time_save_to_sqlite_numeric", "time_save_to_sqlite_array"}
    /\ retval.kind = "tuple"
    /\ nruns = 1

SutRaised == WrapperRuns /\ ti.sut_error # None

C14_Reraised ==
    SutRaised =>
        /\ stage = "raised"
        /\ ti.error = ti.sut_error
        /\ ti.traceback = ti.sut_error
        /\ ~ti.printed
        /\ ti.result = NoResult
        /\ retval = NoReturn

C14_NoRetry ==
    SutRaised => (ti' = NoWrapper \/ ti' = ti)

\* C14: when an execution of sut raises inside a wrapper made by time_it,
\* the wrapper prints the traceback of that error and raises the same
\* error again; sut is not executed any more in that call, and no
\* TimeitResult is printed or returned.
C14_SutErrorPropagates == []C14_Reraised /\ [][C14_NoRetry]_vars

C14_Witness ==
    /\ SutRaised
    /\ stage = "raised"
    /\ ti.number = 2
    /\ ti.repeat = 2
    /\ ti.calls = 3
    /\ ti.all_runs = <<1>>
    /\ ti.traceback = "OSError"

\* the statements of save_to_hdf5 that use the file or its dataset
H5Uses == {"create_dataset", "resize", "set0", "set1", "set2", "set3", "close"}

C11_Instruments ==
    /\ env.error = None
    /\ \A c \in pending :
           c.stmt.op = "call" => handles[c.stmt.handle].state = "open"
    /\ done => \A h \in Instruments : handles[h].state # "open"
    /\ \A h \in Instruments :
           handles[h].state = "closed" =>
               /\ cell = Len(script(notebook))
               /\ \A i \in 1..Len(trace) :
                      (trace[i].handle = h /\ trace[i].method # "close") =>
                          \E j \in (i + 1)..Len(trace) :
                              trace[j] = Call(h, "close")

C11_Files ==
    /\ (body = "save_to_hdf5" /\ stage = "running" /\ fr.pc \in H5Uses) =>
           h5file.open
    /\ (body = "save_to_hdf5" /\ stage = "returned") =>
           h5file.exists /\ ~h5file.open
    /\ (body = "save_to_npy" /\ stage = "returned") => ~npy_mm.mapped

Starts(tr) ==
    {i \in 1..Len(tr) : tr[i].op = "time" /\ tr[i].method = "t_start"}

\* what trace tr holds after the last t_start
SinceStart(tr) ==
    IF Starts(tr) = {} THEN <<>>
    ELSE SubSeq(tr, (CHOOSE i \in Starts(tr) : \A j \in Starts(tr) : j <= i) + 1,
                Len(tr))

Position(tr, s) == IF Has(tr, s) THEN Index(tr, s) ELSE 0

C12_OneAtATime ==
    /\ Cardinality(pending) <= 1
    /\ \A c \in pending : at_stmt /\ c.at = <<cell, pos>> /\ c.stmt = stmt

C12_LoadAfterSend ==
    \A c \in pending :
        c.stmt = Call("awg", "loadSEQXFile") =>
            LET it == SinceStart(trace)
            IN /\ env.timing
               /\ Has(it, Call("awg", "sendSEQXFile"))
               /\ Has(it, Call("awg", "ask *OPC?"))
               /\ Position(it, Call("awg", "sendSEQXFile"))
                      < Position(it, Call("awg", "ask *OPC?"))
               /\ ~Has(it, Call("awg", "loadSEQXFile"))

\* C12: a call of an instrument returns before the next statement runs,
\* so at most one call is in progress at any time, and the notebook waits
\* at the statement that made it; in benchmark_seqx the sequence file is
\* loaded after sendSEQXFile and then the '*OPC?' query of the same
\* iteration have returned.
C12_SingleThreadedAndSynchronous == C12_OneAtATime /\ C12_LoadAfterSend

C12_Witness ==
    /\ notebook = "awg"
    /\ pending = {[stmt |-> Call("awg", "loadSEQXFile"), at |-> <<cell, pos>>]}
    /\ Len(SelectSeq(trace, LAMBDA e : e = Call("awg", "loadSEQXFile"))) = 1

Count(tr, s) == Len(SelectSeq(tr, LAMBDA e : e = s))

Last(S) == CHOOSE i \in S : \A j \in S : j <= i

Stops(tr) ==
    {i \in 1..Len(tr) : tr[i].op = "time" /\ tr[i].method = "t_stop"}

\* the interval that t_start and t_stop hold after trace tr: what was
\* done between the last t_start and the last t_stop
Timed(tr) ==
    IF Starts(tr) = {} \/ Stops(tr) = {} THEN <<>>
    ELSE SubSeq(tr, Last(Starts(tr)) + 1, Last(Stops(tr)) - 1)

InstrumentOf(name) == IF name = "Keysight" THEN "ks" ELSE "agi"

OtherOf(name) == IF name = "Keysight" THEN "agi" ELSE "ks"

PartOne ==
    /\ notebook = "dmm"
    /\ in_cell
    /\ script(notebook)[cell] \in {cell_displays_on, cell_displays_off}

\* the line 'Read N values one at a time from <name> in: ... s' printed
\* as statement i of the cell
C16_Line(i) ==
    LET before == SubSeq(trace, 1, i - 1)
        name == trace[i].handle
    IN /\ Starts(before) # {}
       /\ Stops(before) # {}
       /\ Last(Starts(before)) < Last(Stops(before))
       /\ Count(Timed(before), Call(InstrumentOf(name), "volt")) = trace[i].arg
       /\ Count(Timed(before), Call(OtherOf(name), "volt")) = 0

\* C16: in the two cells of part one, every line 'Read N values ...'
\* is printed after an interval from t_start to t_stop that holds exactly
\* N reads of the instrument the line names and no read of the other one;
\* a cell prints such a line for every N of the list and both
\* instruments.
C16_TimedIntervalHoldsNReads ==
    PartOne =>
        /\ \A i \in 1..Len(trace) :
               trace[i].op = "print_elapsed" => C16_Line(i)
        /\ end_of_cell =>
               \A k \in 1..Len(Ns), name \in {"Keysight", "Agilent"} :
                   Count(trace, PrintElapsed(name, Ns[k])) = 1

C16_Witness ==
    /\ PartOne
    /\ end_of_cell
    /\ script(notebook)[cell] = cell_displays_off
    /\ Count(trace, Call("agi", "volt")) = Ns[1] + Ns[2] + Ns[3]
    /\ trace[Len(trace) - 2] = PrintElapsed("Agilent", Ns[3])

DisplaysOffCells == {cell_displays_off, cell_sweep_1d, cell_sweep_2d}

\* the statements of the cell from the t_start taken last to the t_stop
\* that follows it
IntervalOfCell ==
    LET code == script(notebook)[cell]
        first == Last(Starts(trace))
        stop == CHOOSE i \in Stops(code) :
                    i > first /\ \A j \in Stops(code) : j > first => i <= j
    IN SubSeq(code, first + 1, stop - 1)

\* the multimeters read in that interval
BeingRead == {h \in {"ks", "agi"} : Has(IntervalOfCell, Call(h, "volt"))}

C17_OffWhileTimed ==
    (in_cell /\ script(notebook)[cell] \in DisplaysOffCells /\ env.timing) =>
        /\ BeingRead # {}
        /\ \A h \in BeingRead : handles[h].display = "text"

C17_OnAtTheEnd ==
    (end_of_cell /\ \E h \in {"ks", "agi"} : Has(trace, Call(h, "display_text"))) =>
        /\ script(notebook)[cell] \in DisplaysOffCells
        /\ handles["ks"].display = "on"
        /\ handles["agi"].display = "on"

C17_OffCellsSwitchOff ==
    (end_of_cell /\ script(notebook)[cell] \in DisplaysOffCells) =>
        \A h \in {"ks", "agi"} :
            /\ Has(trace, Call(h, "display_text"))
            /\ Has(trace, Call(h, "volt"))

\* C17: in the displays-OFF cell and in the two sweep cells the display
\* of the multimeter that is read shows the text (is off) from t_start to
\* t_stop; every cell that calls display_text ends with the displays of
\* both multimeters on again.
C17_DisplayOffWhileTimed ==
    C17_OffWhileTimed /\ C17_OnAtTheEnd /\ C17_OffCellsSwitchOff

C17_Witness ==
    /\ notebook = "dmm"
    /\ in_cell
    /\ script(notebook)[cell] = cell_sweep_2d
    /\ env.timing
    /\ pending = {[stmt |-> Call("agi", "volt"), at |-> <<cell, pos>>]}
    /\ handles["agi"].display = "text"

\* the calls that are timed as the work of a benchmark, and what has to
\* be set up on the instrument before
TimedWork ==
    {"volt", "sendSEQXFile", "ask *OPC?", "loadSEQXFile", "setSequenceTrack"}

SetUpOf(h) ==
    IF h = "awg" THEN {"clearSequenceList", "clearWaveformList"}
    ELSE {"NPLC", "range"}

C13_ConfiguredFirst ==
    /\ \A c \in pending :
           (env.timing /\ c.stmt.method \in TimedWork) =>
               SetUpOf(c.stmt.handle) \subseteq handles[c.stmt.handle].configured
    /\ (body = "save_to_sqlite" /\ InLog("t0")) =>
           \A e \in {"define_parameters", "Measurement", "register_parameters",
                     "write_period", "enter_run"} : Before(e, "t0")
    /\ (body = "save_to_sqlite" /\ InLog("add_result")) => Before("t0", "add_result")

C13_SummaryAfter ==
    /\ \A i \in 1..Len(trace) :
           /\ trace[i].op = "print_elapsed" =>
                  LET before == SubSeq(trace, 1, i - 1)
                  IN /\ Stops(before) # {}
                     /\ Starts(before) # {}
                     /\ Last(Starts(before)) < Last(Stops(before))
                     /\ \E e \in TimedWork, h \in Instruments :
                            Has(Timed(before), Call(h, e))
                     /\ \A j \in Last(Stops(before))..i : trace[j].op # "call"
           /\ trace[i].op = "print_summary" =>
                  /\ \A n \in 1..no_of_reps :
                         /\ Has(trace, Record(n - 1))
                         /\ Index(trace, Record(n - 1)) < i
                  /\ Count(SubSeq(trace, 1, i), Call("awg", "loadSEQXFile"))
                         = no_of_reps
                  /\ Count(trace, Call("awg", "loadSEQXFile")) = no_of_reps
    /\ (WrapperRuns /\ ti.printed) =>
           /\ ti.pc = "returned"
           /\ Len(ti.all_runs) = ti.repeat
           /\ ti.calls >= ti.number_ * ti.repeat

\* the elapsed time the next statement prints or stores
Elapsed == env.t_stop - env.t_start

OnPerfCounter == env.p_stop - env.p_start

UsesElapsed == at_stmt /\ stmt.op \in {"print_elapsed", "record"}

C13_PerfCounterDeltas ==
    /\ UsesElapsed => Elapsed = OnPerfCounter
    /\ env.times = env.p_times
    /\ (body = "save_to_sqlite" /\ fr.saving_time # NoNumber) =>
           fr.saving_time = fr.t1 - fr.t0

\* the clock each notebook reads
ClockOf(nb) == IF nb = "dmm" THEN "time" ELSE "perf_counter"

C13_ClockDeltas ==
    /\ \A i \in 1..Len(trace) :
           trace[i].op = "time" => trace[i].handle = ClockOf(notebook)
    /\ (UsesElapsed /\ notebook = "awg") => Elapsed = OnPerfCounter
    /\ (UsesElapsed /\ notebook = "dmm") =>
           /\ Elapsed - OnPerfCounter <= MaxSkew
           /\ OnPerfCounter - Elapsed <= MaxSkew
    /\ env.times = env.p_times
    /\ (body = "save_to_sqlite" /\ fr.saving_time # NoNumber) =>
           fr.saving_time = fr.t1 - fr.t0

\* C13 as claimed: every benchmark sets up its instrument or library
\* handle first, then runs its N timed iterations, then prints the
\* summary; no timed iteration comes before the set-up, no summary before
\* the iterations it is about, and every elapsed time recorded is a
\* difference of two readings of time.perf_counter().
C13_BenchmarkPattern ==
    C13_ConfiguredFirst /\ C13_SummaryAfter /\ C13_PerfCounterDeltas

\* C13 as amended: the same order of set-up, timed iterations and
\* summary; the elapsed times are differences of two readings of one
\* clock, time.perf_counter() in benchmark_seqx and save_to_sqlite and
\* time.time() in the multimeter notebook, where they are off from the
\* performance counter by what the system clock was set by meanwhile.
C13_BenchmarkPatternOnItsClock ==
    C13_ConfiguredFirst /\ C13_SummaryAfter /\ C13_ClockDeltas

C13_Witness ==
    /\ notebook = "dmm"
    /\ UsesElapsed
    /\ stmt = PrintElapsed("Keysight", Ns[2])
    /\ Elapsed = 0
    /\ OnPerfCounter = 1

=============================================================================
